---- MODULE Spec2Model ----
\* Model of the EUR/USD confluence backtest script (src/file_1.py):
\* indicator columns, the backtest loop with its TP/SL forward scan and time
\* exit, the performance metrics and the live signal.
\*
\* Units.  Prices are integers in pips (1 pip = 0.0001), so the script's
\* "* 10000" turns a price difference of d units into d pips.  Indicator
\* columns are exact rationals, stored as integer multiples of 1/Q pip.
\*
\* Scaling.  The script's look-back constants (200 warm-up bars, 1000 tested
\* bars, 24 holding bars) and its smoothing spans (20/50/200, 12/26/9, 14) are
\* scaled down so that whole runs fit in the model; every scaled definition
\* says which constant it stands for.  The formulas are the script's.
EXTENDS Integers, Sequences, FiniteSets

VARIABLES df, pc, i, j, signal, effective_entry, trade_result, exit_price,
          exit_reason, results, wins, losses, trades, total_pips,
          accuracy, win_pips, loss_pips, profit_factor, expectancy,
          live_score, live_signal, confidence

vars == <<df, pc, i, j, signal, effective_entry, trade_result, exit_price,
          exit_reason, results, wins, losses, trades, total_pips,
          accuracy, win_pips, loss_pips, profit_factor, expectancy,
          live_score, live_signal, confidence>>

-----------------------------------------------------------------------------
\* Bounds of the model
MaxLen == 8          \* longest bar series
WickSize == 12       \* reach of a bar's high / low beyond its close, in pips
BasePrice == 50      \* first close of every series, in pips
Steps == {0 - 1, 0, 1}  \* close-to-close moves, in pips
Wicks == {0, WickSize}

\* Strategy configuration
SPREAD_PIPS == 1     \* 0.00010
TP_PIPS == 10        \* 0.0010
SL_PIPS == 8         \* 0.0008
MAX_HOLD_BARS == 2   \* stands for 24
WARMUP_BARS == 3     \* stands for the 200 of max(200, len(df) - 1000)
TEST_WINDOW == 4     \* stands for the 1000 of max(200, len(df) - 1000)

\* Smoothing: ewm(span = s) has alpha = 2 / (s + 1); AlphaDen(s) is 1 / alpha.
SPAN_EMA20 == 3      \* stands for span 20
SPAN_EMA50 == 7      \* stands for span 50
SPAN_EMA200 == 15    \* stands for span 200
SPAN_MACD_FAST == 3  \* stands for span 12
SPAN_MACD_SLOW == 7  \* stands for span 26
SPAN_MACD_SIGNAL == 3 \* stands for span 9
RSI_ALPHA_DEN == 4   \* stands for the 14 of alpha = 1/14
RSI_LOW == 40
RSI_HIGH == 60

AlphaDen(span) == (span + 1) \div 2

RECURSIVE Pow(_, _)
Pow(b, e) == IF e = 0 THEN 1 ELSE b * Pow(b, e - 1)

\* Common denominator of the indicator columns: every column of a series of
\* at most MaxLen bars is an integer multiple of 1/Q.
Q == Pow(8, MaxLen - 1)

Max(a, b) == IF a >= b THEN a ELSE b
Abs(x) == IF x < 0 THEN 0 - x ELSE x

-----------------------------------------------------------------------------
\* Indicators (exact arithmetic over multiples of 1/Q)

\* Series.ewm(alpha = 1/d, adjust = False).mean(): seeded with the first
\* value, then  y[t] = y[t-1] + (x[t] - y[t-1]) / d.
RECURSIVE Ewm(_, _)
Ewm(xs, d) ==
    IF Len(xs) <= 1 THEN xs
    ELSE LET prev == Ewm(SubSeq(xs, 1, Len(xs) - 1), d)
             last == prev[Len(prev)]
         IN  Append(prev, last + (xs[Len(xs)] - last) \div d)

\* delta = Close.diff(); gain = delta.where(delta > 0, 0)
Gain(closes) ==
    [t \in 1..Len(closes) |->
        IF t > 1 /\ closes[t] - closes[t-1] > 0
        THEN (closes[t] - closes[t-1]) * Q ELSE 0]

\* loss = -delta.where(delta < 0, 0)
Loss(closes) ==
    [t \in 1..Len(closes) |->
        IF t > 1 /\ closes[t] - closes[t-1] < 0
        THEN (closes[t-1] - closes[t]) * Q ELSE 0]

\* Variant: every division by a zero avg_loss is NaN.
RSIValueZeroLossNaN(avg_gain, avg_loss) ==
    IF avg_loss = 0
    THEN [nan |-> TRUE, num |-> 0, den |-> 1]
    ELSE [nan |-> FALSE, num |-> 100 * avg_gain, den |-> avg_gain + avg_loss]

\* rs = avg_gain / avg_loss; RSI = 100 - 100 / (1 + rs).
\* 0/0 is NaN; x/0 with x > 0 is +inf and gives RSI = 100; otherwise
\* RSI = 100 * avg_gain / (avg_gain + avg_loss), kept as num / den.
RSIValue(avg_gain, avg_loss) ==
    IF avg_gain = 0 /\ avg_loss = 0
    THEN [nan |-> TRUE, num |-> 0, den |-> 1]
    ELSE [nan |-> FALSE, num |-> 100 * avg_gain, den |-> avg_gain + avg_loss]

\* Comparisons with a possibly-NaN RSI: any comparison with NaN is False.
RSILess(r, k) == ~r.nan /\ r.num < k * r.den
RSIGreater(r, k) == ~r.nan /\ r.num > k * r.den

\* The indicator columns of a close series, one record per bar.
Indicators(closes) ==
    LET n == Len(closes)
        scaled == [t \in 1..n |-> closes[t] * Q]
        ema20 == Ewm(scaled, AlphaDen(SPAN_EMA20))
        ema50 == Ewm(scaled, AlphaDen(SPAN_EMA50))
        ema200 == Ewm(scaled, AlphaDen(SPAN_EMA200))
        avg_gain == Ewm(Gain(closes), RSI_ALPHA_DEN)
        avg_loss == Ewm(Loss(closes), RSI_ALPHA_DEN)
        fast == Ewm(scaled, AlphaDen(SPAN_MACD_FAST))
        slow == Ewm(scaled, AlphaDen(SPAN_MACD_SLOW))
        macd == [t \in 1..n |-> fast[t] - slow[t]]
        macd_signal == Ewm(macd, AlphaDen(SPAN_MACD_SIGNAL))
    IN  [t \in 1..n |->
            [EMA20 |-> ema20[t], EMA50 |-> ema50[t], EMA200 |-> ema200[t],
             RSI |-> RSIValue(avg_gain[t], avg_loss[t]),
             MACD |-> macd[t], MACD_SIGNAL |-> macd_signal[t]]]

-----------------------------------------------------------------------------
\* Inputs: the bar series the download can deliver

\* start_idx = max(200, len(df) - 1000)
StartIdx(n) == Max(WARMUP_BARS, n - TEST_WINDOW)

RECURSIVE ClosePaths(_)
ClosePaths(n) ==
    IF n = 1 THEN {<<BasePrice>>}
    ELSE {Append(p, p[n-1] + s) : p \in ClosePaths(n - 1), s \in Steps}

\* The bars that may reach beyond their close: High and Low are only ever
\* read from bars after start_idx, and the model lets the last
\* MAX_HOLD_BARS of them (the look-ahead window of the last tested bar) do so.
Wicked(n) == {t \in 1..n : t - 1 > StartIdx(n) /\ t > n - MAX_HOLD_BARS}

\* The data frame: the downloaded bars plus the indicator columns.
DataFrame(closes, ind, w) ==
    [t \in 1..Len(closes) |->
        [Close |-> closes[t],
         High |-> closes[t] + (IF t \in DOMAIN w THEN w[t][1] ELSE 0),
         Low |-> closes[t] - (IF t \in DOMAIN w THEN w[t][2] ELSE 0),
         EMA20 |-> ind[t].EMA20, EMA50 |-> ind[t].EMA50, EMA200 |-> ind[t].EMA200,
         RSI |-> ind[t].RSI, MACD |-> ind[t].MACD,
         MACD_SIGNAL |-> ind[t].MACD_SIGNAL]]

\* Row k of the data frame, k counted from 0 as df.iloc[k].
Row(k) == df[k + 1]

-----------------------------------------------------------------------------
\* Scoring

\* The four filters of one row, each +1, -1 or 0.
TrendFilter(row) ==
    IF row.Close * Q > row.EMA200 THEN 1
    ELSE IF row.Close * Q < row.EMA200 THEN 0 - 1 ELSE 0

CrossFilter(row) ==
    IF row.EMA20 > row.EMA50 THEN 1
    ELSE IF row.EMA20 < row.EMA50 THEN 0 - 1 ELSE 0

MacdFilter(row) ==
    IF row.MACD > row.MACD_SIGNAL THEN 1
    ELSE IF row.MACD < row.MACD_SIGNAL THEN 0 - 1 ELSE 0

RsiFilter(row) ==
    IF RSILess(row.RSI, RSI_LOW) THEN 1
    ELSE IF RSIGreater(row.RSI, RSI_HIGH) THEN 0 - 1 ELSE 0

Score(row) == TrendFilter(row) + CrossFilter(row) + MacdFilter(row) + RsiFilter(row)

\* Variant: moderate confluence (|score| = 2) also opens a trade.
BacktestSignalModerate(score) ==
    IF score >= 2 THEN "BUY"
    ELSE IF score <= 0 - 2 THEN "SELL" ELSE "NEUTRAL"

\* The backtest's entry rule; "NEUTRAL" is the loop's continue.
BacktestSignal(score) ==
    IF score >= 3 THEN "BUY"
    ELSE IF score <= 0 - 3 THEN "SELL" ELSE "NEUTRAL"

\* effective_entry: the spread is always against the trader.
EffectiveEntry(sig, close) ==
    IF sig = "BUY" THEN close + SPREAD_PIPS ELSE close - SPREAD_PIPS

\* Take-profit and stop-loss tests of one future bar.
TPHit(sig, entry, future) ==
    IF sig = "BUY" THEN future.High >= entry + TP_PIPS
    ELSE future.Low <= entry - TP_PIPS

SLHit(sig, entry, future) ==
    IF sig = "BUY" THEN future.Low <= entry - SL_PIPS
    ELSE future.High >= entry + SL_PIPS

\* Variant: the stop-loss test comes first.
ScanBarSLFirst(sig, entry, future) ==
    IF SLHit(sig, entry, future) THEN "SL"
    ELSE IF TPHit(sig, entry, future) THEN "TP" ELSE "None"

\* One pass of the scan body over a future bar: the take-profit test comes
\* first, the stop-loss test is reached only when it failed.
ScanBar(sig, entry, future) ==
    IF TPHit(sig, entry, future) THEN "TP"
    ELSE IF SLHit(sig, entry, future) THEN "SL" ELSE "None"

\* Variant: range(1, MAX_HOLD_BARS), one bar short.
ScanRangeShort == 1..(MAX_HOLD_BARS - 1)

\* for j in range(1, MAX_HOLD_BARS + 1)
ScanRange == 1..MAX_HOLD_BARS

\* Variant: range(start_idx, len(df)), no room left for the look-ahead.
LoopEndNoHold(n) == n

\* for i in range(start_idx, len(df) - MAX_HOLD_BARS): the exclusive end.
LoopEnd(n) == n - MAX_HOLD_BARS

TPLevel(sig, entry) == IF sig = "BUY" THEN entry + TP_PIPS ELSE entry - TP_PIPS
SLLevel(sig, entry) == IF sig = "BUY" THEN entry - SL_PIPS ELSE entry + SL_PIPS

\* Variant: a close equal to the entry also wins.
TimeExitResultNonStrict(sig, entry, exit) ==
    IF (sig = "BUY" /\ exit >= entry) \/ (sig = "SELL" /\ exit <= entry)
    THEN "WIN" ELSE "LOSS"

\* Outcome of a time exit: a strictly favourable close wins.
TimeExitResult(sig, entry, exit) ==
    IF (sig = "BUY" /\ exit > entry) \/ (sig = "SELL" /\ exit < entry)
    THEN "WIN" ELSE "LOSS"

\* Variant: the BUY formula for both directions.
PipsBuyOnly(sig, entry, exit) == exit - entry

\* P&L in pips; prices are already in pips.
Pips(sig, entry, exit) == IF sig = "BUY" THEN exit - entry ELSE entry - exit

-----------------------------------------------------------------------------
\* The script

NoPrice == 0 - 1     \* exit_price = None
NoValue == <<0, 0>>  \* a metric not computed yet
Zero == <<0, 1>>     \* the number 0, as numerator / denominator
Infinity == <<1, 0>> \* float('inf')

Init ==
    /\ \E n \in 1..MaxLen :
       \E cols \in {[closes |-> c, ind |-> Indicators(c)] : c \in ClosePaths(n)} :
       \E w \in [Wicked(n) -> Wicks \X Wicks] :
          /\ df = DataFrame(cols.closes, cols.ind, w)
          /\ i = StartIdx(n)
    /\ pc = "loop"
    /\ j = 0
    /\ signal = "NEUTRAL"
    /\ effective_entry = NoPrice
    /\ trade_result = "None"
    /\ exit_price = NoPrice
    /\ exit_reason = "None"
    /\ results = <<>>
    /\ wins = 0 /\ losses = 0 /\ trades = 0
    /\ total_pips = 0
    /\ accuracy = NoValue /\ win_pips = 0 /\ loss_pips = 0
    /\ profit_factor = NoValue /\ expectancy = NoValue
    /\ live_score = 0 /\ live_signal = "None" /\ confidence = 0

InLoop == pc = "loop" /\ i < LoopEnd(Len(df))

\* for i in range(start_idx, len(df) - MAX_HOLD_BARS): ... continue
SkipBar ==
    /\ InLoop
    /\ BacktestSignal(Score(Row(i))) = "NEUTRAL"
    /\ i' = i + 1
    /\ UNCHANGED <<df, pc, j, signal, effective_entry, trade_result, exit_price,
                   exit_reason, results, wins, losses, trades, total_pips,
                   accuracy, win_pips, loss_pips, profit_factor, expectancy,
                   live_score, live_signal, confidence>>

\* EXECUTE TRADE: count it, fix the entry, start the forward scan.
OpenTrade ==
    /\ InLoop
    /\ BacktestSignal(Score(Row(i))) # "NEUTRAL"
    /\ signal' = BacktestSignal(Score(Row(i)))
    /\ trades' = trades + 1
    /\ effective_entry' = EffectiveEntry(signal', Row(i).Close)
    /\ trade_result' = "None"
    /\ exit_price' = NoPrice
    /\ exit_reason' = "None"
    /\ j' = 1
    /\ pc' = "scan"
    /\ UNCHANGED <<df, i, results, wins, losses, total_pips,
                   accuracy, win_pips, loss_pips, profit_factor, expectancy,
                   live_score, live_signal, confidence>>

Scanning == pc = "scan" /\ j \in ScanRange

\* Bar i + j touches the take-profit level: close there and stop scanning.
ScanTP ==
    /\ Scanning
    /\ ScanBar(signal, effective_entry, Row(i + j)) = "TP"
    /\ exit_price' = TPLevel(signal, effective_entry)
    /\ trade_result' = "WIN"
    /\ exit_reason' = "TP"
    /\ pc' = "record"
    /\ UNCHANGED <<df, i, j, signal, effective_entry, results, wins, losses,
                   trades, total_pips, accuracy, win_pips, loss_pips,
                   profit_factor, expectancy, live_score, live_signal, confidence>>

\* Bar i + j touches the stop-loss level only: close there and stop scanning.
ScanSL ==
    /\ Scanning
    /\ ScanBar(signal, effective_entry, Row(i + j)) = "SL"
    /\ exit_price' = SLLevel(signal, effective_entry)
    /\ trade_result' = "LOSS"
    /\ exit_reason' = "SL"
    /\ pc' = "record"
    /\ UNCHANGED <<df, i, j, signal, effective_entry, results, wins, losses,
                   trades, total_pips, accuracy, win_pips, loss_pips,
                   profit_factor, expectancy, live_score, live_signal, confidence>>

\* Neither level touched: next future bar.
ScanNext ==
    /\ Scanning
    /\ ScanBar(signal, effective_entry, Row(i + j)) = "None"
    /\ j' = j + 1
    /\ UNCHANGED <<df, pc, i, signal, effective_entry, trade_result, exit_price,
                   exit_reason, results, wins, losses, trades, total_pips,
                   accuracy, win_pips, loss_pips, profit_factor, expectancy,
                   live_score, live_signal, confidence>>

\* Exit at max hold time if no TP/SL hit.
TimeExit ==
    /\ pc = "scan" /\ j \notin ScanRange
    /\ trade_result = "None"
    /\ exit_price' = Row(i + MAX_HOLD_BARS).Close
    /\ trade_result' = TimeExitResult(signal, effective_entry, exit_price')
    /\ exit_reason' = "TIME"
    /\ pc' = "record"
    /\ UNCHANGED <<df, i, j, signal, effective_entry, results, wins, losses,
                   trades, total_pips, accuracy, win_pips, loss_pips,
                   profit_factor, expectancy, live_score, live_signal, confidence>>

\* Variant: a loss is counted but its pips are not added.
AccumulateWinPipsOnly(acc, result, pips) ==
    IF result = "WIN"
    THEN [acc EXCEPT !.wins = @ + 1, !.total_pips = @ + pips]
    ELSE [acc EXCEPT !.losses = @ + 1]

\* if trade_result == "WIN": wins += 1; total_pips += pips
\* else: losses += 1; total_pips += pips
Accumulate(acc, result, pips) ==
    IF result = "WIN"
    THEN [acc EXCEPT !.wins = @ + 1, !.total_pips = @ + pips]
    ELSE [acc EXCEPT !.losses = @ + 1, !.total_pips = @ + pips]

\* Calculate P&L, update the accumulators, append the record; next bar.
RecordTrade ==
    /\ pc = "record"
    /\ LET pips == Pips(signal, effective_entry, exit_price)
           acc == Accumulate([wins |-> wins, losses |-> losses,
                              total_pips |-> total_pips], trade_result, pips)
       IN  /\ wins' = acc.wins
           /\ losses' = acc.losses
           /\ total_pips' = acc.total_pips
           /\ results' = Append(results,
                  [index |-> i, signal |-> signal, entry |-> effective_entry,
                   exit |-> exit_price, pips |-> pips, result |-> trade_result,
                   reason |-> exit_reason])
    /\ i' = i + 1
    /\ pc' = "loop"
    /\ UNCHANGED <<df, j, signal, effective_entry, trade_result, exit_price,
                   exit_reason, trades, accuracy, win_pips, loss_pips,
                   profit_factor, expectancy, live_score, live_signal, confidence>>

RECURSIVE SumPips(_, _)
SumPips(rs, outcome) ==
    IF rs = <<>> THEN 0
    ELSE (IF rs[1].result = outcome THEN rs[1].pips ELSE 0)
         + SumPips(Tail(rs), outcome)

\* PERFORMANCE METRICS, once the loop has run out of bars.
Metrics ==
    /\ pc = "loop" /\ ~(i < LoopEnd(Len(df)))
    /\ accuracy' = IF trades > 0 THEN <<wins * 100, trades>> ELSE Zero
    /\ win_pips' = SumPips(results, "WIN")
    /\ loss_pips' = Abs(SumPips(results, "LOSS"))
    /\ profit_factor' = IF loss_pips' > 0 THEN <<win_pips', loss_pips'>> ELSE Infinity
    /\ expectancy' = IF trades > 0 THEN <<total_pips, trades>> ELSE Zero
    /\ pc' = "live"
    /\ UNCHANGED <<df, i, j, signal, effective_entry, trade_result, exit_price,
                   exit_reason, results, wins, losses, trades, total_pips,
                   live_score, live_signal, confidence>>

LiveSignalOf(score) ==
    IF score >= 3 THEN "STRONG BUY"
    ELSE IF score <= 0 - 3 THEN "STRONG SELL"
    ELSE IF score >= 2 THEN "BUY (Moderate)"
    ELSE IF score <= 0 - 2 THEN "SELL (Moderate)"
    ELSE "NEUTRAL"

ConfidenceOf(score) ==
    IF score >= 3 THEN 100
    ELSE IF score <= 0 - 3 THEN 100
    ELSE IF score >= 2 THEN 67
    ELSE IF score <= 0 - 2 THEN 67
    ELSE 0

\* LIVE SIGNAL on the last bar, df.iloc[-1].
LiveSignal ==
    /\ pc = "live"
    /\ live_score' = Score(Row(Len(df) - 1))
    /\ live_signal' = LiveSignalOf(live_score')
    /\ confidence' = ConfidenceOf(live_score')
    /\ pc' = "done"
    /\ UNCHANGED <<df, i, j, signal, effective_entry, trade_result, exit_price,
                   exit_reason, results, wins, losses, trades, total_pips,
                   accuracy, win_pips, loss_pips, profit_factor, expectancy>>

Next ==
    \/ SkipBar
    \/ OpenTrade
    \/ ScanTP
    \/ ScanSL
    \/ ScanNext
    \/ TimeExit
    \/ RecordTrade
    \/ Metrics
    \/ LiveSignal

Spec == Init /\ [][Next]_vars

\* The same script under weak fairness: it runs to its end.
FairSpec == Spec /\ WF_vars(Next)

-----------------------------------------------------------------------------
\* Vocabulary of the properties

Hold == MAX_HOLD_BARS
LastRow == Len(df) - 1
Closed == pc \in {"loop", "live", "done"}   \* no trade in flight
InFlight == pc \in {"scan", "record"}

\* Bars the backtest loop has finished with.
Processed == StartIdx(Len(df))..(i - 1)

RecordsAt(k) == {r \in 1..Len(results) : results[r].index = k}

\* A trade of direction sig entered at price entry: does bar k touch its
\* take-profit level, its stop-loss level?
TouchesTP(sig, entry, k) ==
    \/ sig = "BUY" /\ Row(k).High >= entry + TP_PIPS
    \/ sig = "SELL" /\ Row(k).Low <= entry - TP_PIPS

TouchesSL(sig, entry, k) ==
    \/ sig = "BUY" /\ Row(k).Low <= entry - SL_PIPS
    \/ sig = "SELL" /\ Row(k).High >= entry + SL_PIPS

Untouched(sig, entry, k) == ~TouchesTP(sig, entry, k) /\ ~TouchesSL(sig, entry, k)

\* Bar k + jj is the first future bar of a trade opened at k that touches a
\* level, and it touches both.
FirstTouchIsBoth(sig, entry, k, jj) ==
    /\ TouchesTP(sig, entry, k + jj) /\ TouchesSL(sig, entry, k + jj)
    /\ \A m \in 1..(jj - 1) : Untouched(sig, entry, k + m)

NeverTouched(sig, entry, k) == \A m \in 1..Hold : Untouched(sig, entry, k + m)

Favourable(sig, entry, exit) ==
    \/ sig = "BUY" /\ exit > entry
    \/ sig = "SELL" /\ exit < entry

RECURSIVE TotalOf(_)
TotalOf(rs) == IF rs = <<>> THEN 0 ELSE rs[1].pips + TotalOf(Tail(rs))

WinsOf(rs) == Cardinality({r \in 1..Len(rs) : rs[r].result = "WIN"})

IsZero(q) == q[1] = 0 /\ q[2] # 0

-----------------------------------------------------------------------------
\* C1: no trade is recorded with an open index i >= len(series) - H, and
\* every future bar i + j, 1 <= j <= H, that the forward scan or the time
\* exit of an open trade reads lies inside the series.
C1_NoTradeInFinalBars ==
    /\ \A r \in 1..Len(results) : results[r].index < Len(df) - Hold
    /\ InFlight => i + Hold <= LastRow
    /\ (pc = "scan" /\ j <= Hold) => i + j <= LastRow

\* A trade was opened at the last admissible bar and ran to its time exit,
\* reading the last bar of the series.
C1_Witness ==
    \E r \in 1..Len(results) :
        /\ results[r].index = Len(df) - Hold - 1
        /\ results[r].reason = "TIME"

\* C2: when the first future bar that touches any level touches both the
\* take-profit and the stop-loss level, the trade is a WIN closed exactly at
\* the take-profit level with pips = TP distance, and the scan stopped at
\* that bar.
C2_TakeProfitPriority ==
    /\ pc = "record" =>
          \A jj \in 1..Hold :
              FirstTouchIsBoth(signal, effective_entry, i, jj) =>
                  /\ trade_result = "WIN"
                  /\ exit_price = IF signal = "BUY" THEN effective_entry + TP_PIPS
                                  ELSE effective_entry - TP_PIPS
                  /\ j = jj
    /\ \A r \in 1..Len(results) :
          LET t == results[r]
          IN  (\E jj \in 1..Hold : FirstTouchIsBoth(t.signal, t.entry, t.index, jj)) =>
                  /\ t.result = "WIN"
                  /\ t.exit = IF t.signal = "BUY" THEN t.entry + TP_PIPS
                              ELSE t.entry - TP_PIPS
                  /\ t.pips = TP_PIPS

\* A SELL trade whose first future bar touches both levels, with a later bar
\* of the window still unread.
C2_Witness ==
    /\ pc = "record"
    /\ signal = "SELL"
    /\ FirstTouchIsBoth(signal, effective_entry, i, 1)
    /\ j < Hold

\* C3 (state part): an open trade is undecided while at most H future bars
\* are examined; it then has exactly one exit reason among TP, SL and TIME,
\* TIME exactly when no bar j in 1..H touched a level, and a defined exit
\* price and a WIN or LOSS outcome; every opened trade is in flight or recorded.
C3_Terminal ==
    /\ pc = "scan" =>
          /\ trade_result = "None" /\ exit_reason = "None"
          /\ j \in 1..(Hold + 1)
          /\ \A m \in 1..(j - 1) : Untouched(signal, effective_entry, i + m)
    /\ pc = "record" =>
          /\ exit_reason \in {"TP", "SL", "TIME"}
          /\ trade_result \in {"WIN", "LOSS"}
          /\ exit_price # NoPrice
          /\ exit_reason = "TIME" <=> NeverTouched(signal, effective_entry, i)
          /\ exit_reason \in {"TP", "SL"} => j \in 1..Hold
    /\ \A r \in 1..Len(results) :
          /\ results[r].reason \in {"TP", "SL", "TIME"}
          /\ results[r].result \in {"WIN", "LOSS"}
          /\ results[r].exit # NoPrice
    /\ trades = Len(results) + (IF InFlight THEN 1 ELSE 0)

\* C3: the state part always holds, and every opened trade reaches a terminal
\* state.
C3_OneTerminalState == []C3_Terminal /\ ((pc = "scan") ~> (pc = "record"))

\* A second trade reached its time exit after H untouched bars.
C3_Witness ==
    /\ pc = "record"
    /\ exit_reason = "TIME"
    /\ j = Hold + 1
    /\ Len(results) = 1

\* C4 (as claimed): with an empty trade list the report has win_rate = 0,
\* profit_factor = 0 and expectancy = 0, and profit_factor is +infinity if
\* and only if loss_pips = 0 and trades > 0.
C4_EmptyReport ==
    pc \in {"live", "done"} =>
        /\ results = <<>> =>
              IsZero(accuracy) /\ IsZero(profit_factor) /\ IsZero(expectancy)
        /\ profit_factor = Infinity <=> (loss_pips = 0 /\ trades > 0)

C6_Accumulators ==
    Closed =>
        /\ total_pips = TotalOf(results)
        /\ trades = Len(results)
        /\ wins = WinsOf(results)
        /\ losses = trades - wins

\* Two trades recorded, one won and one lost.
C6_Witness ==
    /\ Closed
    /\ Len(results) = 2
    /\ wins = 1 /\ losses = 1
    /\ total_pips # 0

\* C7 (as claimed): confidence is |score| / 4 as a percentage, and the
\* category is STRONG BUY for score >= 3, STRONG SELL for score <= -3, BUY
\* for score = 2, SELL for score = -2, otherwise NEUTRAL.
C7_Confidence ==
    pc = "done" =>
        /\ confidence = Abs(live_score) * 25
        /\ live_signal =
              IF live_score >= 3 THEN "STRONG BUY"
              ELSE IF live_score <= 0 - 3 THEN "STRONG SELL"
              ELSE IF live_score = 2 THEN "BUY (Moderate)"
              ELSE IF live_score = 0 - 2 THEN "SELL (Moderate)"
              ELSE "NEUTRAL"

\* C8: a trade none of whose H future bars touches a level closes at
\* close[i + H]; it is a WIN exactly when that price is strictly favourable
\* to the entry, and a LOSS otherwise, also when exit equals entry.
C8_TimeExit ==
    \A r \in 1..Len(results) :
        LET t == results[r]
        IN  NeverTouched(t.signal, t.entry, t.index) =>
                /\ t.reason = "TIME"
                /\ t.exit = Row(t.index + Hold).Close
                /\ t.result = "WIN" <=> Favourable(t.signal, t.entry, t.exit)
                /\ t.result = "LOSS" <=> ~Favourable(t.signal, t.entry, t.exit)

\* A time exit at exactly the entry price, recorded as a LOSS.
C8_Witness ==
    \E r \in 1..Len(results) :
        /\ results[r].reason = "TIME"
        /\ results[r].exit = results[r].entry
        /\ results[r].result = "LOSS"

\* C9: a bar whose RSI is undefined (avg_gain and avg_loss both 0) scores
\* NEUTRAL and never opens a trade.
C9_UndefinedRSI ==
    /\ \A k \in 0..LastRow :
          Row(k).RSI.nan =>
              /\ BacktestSignal(Score(Row(k))) = "NEUTRAL"
              /\ RecordsAt(k) = {}
    /\ InFlight => ~Row(i).RSI.nan

\* The loop went over a bar with undefined RSI that had its full look-ahead
\* window.
C9_Witness ==
    /\ pc = "done"
    /\ \E k \in Processed : k < Len(df) - Hold /\ Row(k).RSI.nan

\* C10: every record has entry = close[i] + spread (BUY) or close[i] - spread
\* (SELL) and pips = exit - entry (BUY) or entry - exit (SELL); a WIN has
\* pips >= 0, a LOSS pips <= 0, a TP exit is a WIN of exactly +TP pips and an
\* SL exit a LOSS of exactly -SL pips.
C10_PipsSign ==
    \A r \in 1..Len(results) :
        LET t == results[r]
        IN  /\ t.entry = IF t.signal = "BUY" THEN Row(t.index).Close + SPREAD_PIPS
                         ELSE Row(t.index).Close - SPREAD_PIPS
            /\ t.pips = IF t.signal = "BUY" THEN t.exit - t.entry
                        ELSE t.entry - t.exit
            /\ t.result = "WIN" => t.pips >= 0
            /\ t.result = "LOSS" => t.pips <= 0
            /\ t.reason = "TP" => t.result = "WIN" /\ t.pips = TP_PIPS
            /\ t.reason = "SL" => t.result = "LOSS" /\ t.pips = 0 - SL_PIPS

\* Two trades recorded, the second a SELL stopped out on its second bar.
C10_Witness ==
    /\ pc = "done"
    /\ Len(results) = 2
    /\ results[2].signal = "SELL" /\ results[2].reason = "SL"
    /\ Untouched("SELL", results[2].entry, results[2].index + 1)

====
